---- MODULE Spec2Model ----
(***************************************************************************)
(* TestAgentComponent (frontend/src/app/components/test-agent): the agent  *)
(* session controller.  One action per handler of the component: the       *)
(* lifecycle hooks, the template's events, and the next/error callbacks of *)
(* every gateway request the component subscribes to.  The gateway         *)
(* (AgentService over HttpClient) is an environment that answers each      *)
(* request once, in any order, with a snapshot of the requested agent or   *)
(* with an error.                                                          *)
(***************************************************************************)
EXTENDS Integers, Sequences, FiniteSets, TLC

VARIABLES
    phase,              \* "new" (constructed), "live" (after ngOnInit), "destroyed"
    agentsReq,          \* loadAgents' getAgents() request is in flight
    agents,             \* ids of this.agents, the options of the mat-select
    selectedAgent,      \* this.selectedAgent (NoAgent models null)
    messages,           \* this.messages, the displayed transcript
    isLoading,          \* this.isLoading
    statusSubscription, \* this.statusSubscription (NoSub models null)
    selReqs,            \* getAgent requests of selectAgent in flight, in issue order
    cmdReqs,            \* startAgent / stopAgent requests in flight, counted per command and agent
    chatReqs,           \* sendMessage requests in flight, counted per agent they were sent to
    updReqs,            \* updateAgent requests in flight, counted per agent
    selLatest           \* while selReqs is not empty, the most recent selectAgent call:
                        \* "pending", "applied" or "none" (failed); "none" otherwise

vars == <<phase, agentsReq, agents, selectedAgent, messages, isLoading,
          statusSubscription, selReqs, cmdReqs, chatReqs, updReqs, selLatest>>

\* ---------------------------------------------------------------- bounds

\* Gateway requests in flight at once, all kinds together.
MaxInFlight == 2
\* sendMessage is not offered once the transcript holds this many messages.
MaxMsgs == 1

\* ---------------------------------------------------------------- data

Ids == {"a1", "a2"}

\* AgentStatus (models/agent.ts)
AgentStatus == {"IDLE", "RUNNING", "PAUSED", "COMPLETED", "FAILED", "ERROR"}

\* The statuses the gateway answers with in this model.
GatewayStatus == {"IDLE", "RUNNING"}

Hi == <<"h", "i">>
Hello == <<"h", "e", "l", "l", "o">>

\* What the operator may have typed into the chat input (newMessage).
Texts == {<<>>, <<" ">>, Hi, <<" ", "h", "i", " ">>}

\* Contents of the replies of the chat endpoint.
Replies == {Hello}

UserHi == [role |-> "user", content |-> Hi]
AssistantHello == [role |-> "assistant", content |-> Hello]

\* context.chat_history values the gateway delivers (when the field is present).
GatewayHistories == {<<UserHi>>}

\* An Agent as far as the component reads it: hasHist is whether
\* context.chat_history is present, hist its entries.
NoAgent == [id |-> "none", status |-> "none", hasHist |-> FALSE, hist |-> <<>>]

Snapshots(agentId) ==
    { [id |-> agentId, status |-> s, hasHist |-> FALSE, hist |-> <<>>] : s \in GatewayStatus }
    \cup
    { [id |-> agentId, status |-> s, hasHist |-> TRUE, hist |-> h] :
        s \in GatewayStatus, h \in GatewayHistories }

\* A polling subscription: the id it polls, whether interval(5000) still emits,
\* and the polled getAgent requests it awaits.
NoSub == [agentId |-> "none", timer |-> FALSE, inflight |-> 0]

Commands == {"start", "stop"}

RECURSIVE Sum(_, _)
Sum(f, keys) ==
    IF keys = {} THEN 0
    ELSE LET k == CHOOSE x \in keys : TRUE IN f[k] + Sum(f, keys \ {k})

\* Requests of each kind awaiting their response.
CommandCount == Sum(cmdReqs, Commands \X Ids)
ChatCount == Sum(chatReqs, Ids)
UpdateCount == Sum(updReqs, Ids)

InFlight == Len(selReqs) + CommandCount + ChatCount + UpdateCount

RemoveAt(s, i) == SubSeq(s, 1, i - 1) \o SubSeq(s, i + 1, Len(s))

\* ---------------------------------------------------------------- pure parts

\* String.prototype.trim on a sequence of characters.
RECURSIVE TrimLeft(_)
TrimLeft(t) == IF t # <<>> /\ Head(t) = " " THEN TrimLeft(Tail(t)) ELSE t

RECURSIVE TrimRight(_)
TrimRight(t) ==
    IF t # <<>> /\ t[Len(t)] = " " THEN TrimRight(SubSeq(t, 1, Len(t) - 1)) ELSE t

Trim(t) == TrimRight(TrimLeft(t))

\* A handler that leaves the transcript alone when the snapshot has no chat_history.
SelectMessagesKeepWithoutHistory(agent) ==
    IF agent.hasHist
    THEN [k \in 1..Len(agent.hist) |->
            [role |-> agent.hist[k].role, content |-> agent.hist[k].content]]
    ELSE messages

\* A merge that keeps the local transcript after the fetched one.
SelectMessagesKeepLocal(agent) ==
    (IF agent.hasHist THEN agent.hist ELSE <<>>) \o messages

\* selectAgent's next handler, lines 96-104: the transcript shown for a fetched agent.
SelectMessages(agent) ==
    IF agent.hasHist
    THEN [k \in 1..Len(agent.hist) |->
            [role |-> agent.hist[k].role, content |-> agent.hist[k].content]]
    ELSE <<>>

\* The poll's next handler, lines 122-126.
PollApplied(sel, agent) == IF sel # NoAgent THEN agent ELSE sel

\* A poll handler that shows the polled chat_history.
PollMessagesReconcile(msgs, agent) == IF agent.hasHist THEN agent.hist ELSE msgs

\* A poll handler that empties the transcript.
PollMessagesClear(msgs, agent) == <<>>

\* The poll's next handler, lines 122-126: this.messages is not assigned.
PollMessages(msgs, agent) == msgs

\* The subscription after an error of the polled getAgent: the error passes
\* through switchMap to the subscriber and ends the whole pipeline.
PollFailed(sub) == [sub EXCEPT !.timer = FALSE, !.inflight = 0]

\* A handler that waits for the next poll to show the new snapshot.
CommandAppliedNot(sel, agent) == sel

\* The lifecycle commands' next handlers, lines 143-146 and 157-160.
CommandApplied(sel, agent) == agent

\* A handler that assumes the command took effect.
CommandFailedOptimistic(sel) == [sel EXCEPT !.status = "IDLE"]

\* The lifecycle commands' error handlers, lines 147-150 and 161-164.
CommandFailed(sel) == sel

\* A guard that looks at the selection only.
canSendMessageAnyStatus(sel) == sel # NoAgent

\* canSendMessage(), lines 223-227.
canSendMessage(sel) ==
    IF sel = NoAgent THEN FALSE
    ELSE sel.status = "RUNNING" \/ sel.status = "COMPLETED"

\* sendMessage, lines 182-193: the selected agent after the push onto its chat_history.
PushHistory(sel, m) ==
    [sel EXCEPT !.hasHist = TRUE, !.hist = Append(sel.hist, m)]

\* sendMessage's next handler, lines 205-211.
PushReply(sel, m) ==
    IF sel # NoAgent /\ sel.hasHist THEN [sel EXCEPT !.hist = Append(sel.hist, m)] ELSE sel

\* A handler that puts the reply in front of the transcript.
ReplyMessagesFirst(msgs, content) == <<[role |-> "assistant", content |-> content]>> \o msgs

\* sendMessage's next handler, lines 199-203.
ReplyMessages(msgs, content) == Append(msgs, [role |-> "assistant", content |-> content])

\* A handler that takes the last message back.
ChatFailedRollback(msgs) == IF msgs = <<>> THEN msgs ELSE SubSeq(msgs, 1, Len(msgs) - 1)

\* sendMessage's error handler, lines 215-219.
ChatFailedMessages(msgs) == msgs

\* ---------------------------------------------------------------- methods

\* selectAgent(agentId), lines 92-93: the getAgent request goes out.
selectAgent(agentId) ==
    /\ selReqs' = Append(selReqs, agentId)
    /\ selLatest' = "pending"

\* Calls of unsubscribe() that stopStatusPolling() makes, lines 134-135.
Unsubscribes(sub) == IF sub # NoSub THEN 1 ELSE 0

\* A stop that does nothing.
stopStatusPollingNot(sub) == sub

\* A stop that unsubscribes but keeps the reference in the field.
stopStatusPollingKeepsRef(sub) ==
    IF sub # NoSub THEN [sub EXCEPT !.timer = FALSE, !.inflight = 0] ELSE sub

\* stopStatusPolling(), lines 133-138.
stopStatusPolling(sub) == IF sub # NoSub THEN NoSub ELSE sub

\* A start whose timer emits at once (timer(0, 5000)): the first request is out at start.
startStatusPollingImmediate(sub, agentId) ==
    [agentId |-> agentId, timer |-> TRUE, inflight |-> 1]

\* A start that leaves the previous poller's request in flight.
startStatusPollingNoStop(sub, agentId) ==
    [agentId |-> agentId, timer |-> TRUE, inflight |-> sub.inflight]

\* startStatusPolling(agentId), lines 114-131: interval(5000) emits first after one period.
startStatusPolling(sub, agentId) ==
    LET stopped == stopStatusPolling(sub)
    IN  [agentId |-> agentId, timer |-> TRUE, inflight |-> 0]

\* ---------------------------------------------------------------- initial state

Init ==
    /\ phase = "new"
    /\ agentsReq = FALSE
    /\ agents = {}
    /\ selectedAgent = NoAgent
    /\ messages = <<>>
    /\ isLoading = FALSE
    /\ statusSubscription = NoSub
    /\ selReqs = <<>>
    /\ cmdReqs = [c \in Commands \X Ids |-> 0]
    /\ chatReqs = [id \in Ids |-> 0]
    /\ updReqs = [id \in Ids |-> 0]
    /\ selLatest = "none"

\* ---------------------------------------------------------------- lifecycle hooks

\* ngOnInit(), lines 68-74; route is the 'id' route parameter or "none".
ngOnInit(route) ==
    /\ phase = "new"
    /\ phase' = "live"
    /\ agentsReq' = TRUE
    /\ IF route # "none"
       THEN selectAgent(route)
       ELSE UNCHANGED <<selReqs, selLatest>>
    /\ UNCHANGED <<agents, selectedAgent, messages, isLoading, statusSubscription,
                   cmdReqs, chatReqs, updReqs>>

\* ngOnDestroy(), lines 76-78.
ngOnDestroy ==
    /\ phase = "live"
    /\ phase' = "destroyed"
    /\ statusSubscription' = stopStatusPolling(statusSubscription)
    /\ UNCHANGED <<agentsReq, agents, selectedAgent, messages, isLoading,
                   selReqs, cmdReqs, chatReqs, updReqs, selLatest>>

\* loadAgents' next handler, lines 82-84.
LoadAgentsNext ==
    /\ agentsReq
    /\ agentsReq' = FALSE
    /\ agents' = Ids
    /\ UNCHANGED <<phase, selectedAgent, messages, isLoading, statusSubscription,
                   selReqs, cmdReqs, chatReqs, updReqs, selLatest>>

\* loadAgents' error handler, lines 85-88.
LoadAgentsError ==
    /\ agentsReq
    /\ agentsReq' = FALSE
    /\ UNCHANGED <<phase, agents, selectedAgent, messages, isLoading, statusSubscription,
                   selReqs, cmdReqs, chatReqs, updReqs, selLatest>>

\* ---------------------------------------------------------------- selection

\* The operator picks an option of the mat-select (template line 5): ngModel
\* writes the option's Agent into selectedAgent, then selectionChange calls
\* selectAgent with its id.
UserSelect(entry) ==
    /\ phase = "live"
    /\ entry.id \in agents
    /\ InFlight < MaxInFlight
    /\ selectedAgent' = entry
    /\ selectAgent(entry.id)
    /\ UNCHANGED <<phase, agentsReq, agents, messages, isLoading, statusSubscription,
                   cmdReqs, chatReqs, updReqs>>

\* selectAgent's next handler, lines 94-106, for the i-th request in flight.
SelectNext(i, agent) ==
    /\ i \in 1..Len(selReqs)
    /\ agent.id = selReqs[i]
    /\ selReqs' = RemoveAt(selReqs, i)
    /\ selLatest' = IF Len(selReqs) = 1 THEN "none"
                    ELSE IF i = Len(selReqs) /\ selLatest = "pending" THEN "applied"
                    ELSE selLatest
    /\ selectedAgent' = agent
    /\ messages' = SelectMessages(agent)
    /\ statusSubscription' = startStatusPolling(statusSubscription, agent.id)
    /\ UNCHANGED <<phase, agentsReq, agents, isLoading, cmdReqs, chatReqs, updReqs>>

\* selectAgent's error handler, lines 107-110.
SelectError(i) ==
    /\ i \in 1..Len(selReqs)
    /\ selReqs' = RemoveAt(selReqs, i)
    /\ selLatest' = IF Len(selReqs) = 1 \/ (i = Len(selReqs) /\ selLatest = "pending")
                    THEN "none"
                    ELSE selLatest
    /\ UNCHANGED <<phase, agentsReq, agents, selectedAgent, messages, isLoading,
                   statusSubscription, cmdReqs, chatReqs, updReqs>>

\* ---------------------------------------------------------------- polling

\* An operator that keeps the earlier inner requests subscribed.
mergeMap(awaited) == awaited + 1

\* switchMap, line 119: the polled getAgent requests awaited after an emission
\* of the timer; the earlier inner request is unsubscribed, the new one subscribed.
switchMap(awaited) == (awaited - awaited) + 1

\* A timer whose emissions are held back while a lifecycle command is in flight.
TickUnlessCommand ==
    /\ statusSubscription.timer
    /\ CommandCount = 0
    /\ statusSubscription' =
         IF selectedAgent.id = statusSubscription.agentId
         THEN [statusSubscription EXCEPT !.inflight = switchMap(@)]
         ELSE [statusSubscription EXCEPT !.timer = FALSE]
    /\ UNCHANGED <<phase, agentsReq, agents, selectedAgent, messages, isLoading,
                   selReqs, cmdReqs, chatReqs, updReqs, selLatest>>

\* One emission of interval(5000), lines 116-120: takeWhile completes the timer
\* when the selection has another id (a request in flight still delivers);
\* otherwise switchMap drops the request in flight and issues a new one.
Tick ==
    /\ statusSubscription.timer
    /\ statusSubscription' =
         IF selectedAgent.id = statusSubscription.agentId
         THEN [statusSubscription EXCEPT !.inflight = switchMap(@)]
         ELSE [statusSubscription EXCEPT !.timer = FALSE]
    /\ UNCHANGED <<phase, agentsReq, agents, selectedAgent, messages, isLoading,
                   selReqs, cmdReqs, chatReqs, updReqs, selLatest>>

\* The poll's next handler, lines 122-126.
PollNext(agent) ==
    /\ statusSubscription.inflight > 0
    /\ agent.id = statusSubscription.agentId
    /\ statusSubscription' = [statusSubscription EXCEPT !.inflight = @ - 1]
    /\ selectedAgent' = PollApplied(selectedAgent, agent)
    /\ messages' = PollMessages(messages, agent)
    /\ UNCHANGED <<phase, agentsReq, agents, isLoading,
                   selReqs, cmdReqs, chatReqs, updReqs, selLatest>>

\* The poll's error handler, lines 127-129.
PollError ==
    /\ statusSubscription.inflight > 0
    /\ statusSubscription' = PollFailed(statusSubscription)
    /\ UNCHANGED <<phase, agentsReq, agents, selectedAgent, messages, isLoading,
                   selReqs, cmdReqs, chatReqs, updReqs, selLatest>>

\* ---------------------------------------------------------------- lifecycle commands

\* startAgent() / stopAgent(), lines 140-142 and 154-156: the request goes out.
issueCommand(kind) ==
    IF selectedAgent = NoAgent
    THEN UNCHANGED cmdReqs
    ELSE cmdReqs' = [cmdReqs EXCEPT ![<<kind, selectedAgent.id>>] = @ + 1]

\* The Start Agent menu item (template lines 20-23), shown unless the status is RUNNING.
ClickStart ==
    /\ phase = "live"
    /\ selectedAgent # NoAgent
    /\ selectedAgent.status # "RUNNING"
    /\ InFlight < MaxInFlight
    /\ issueCommand("start")
    /\ UNCHANGED <<phase, agentsReq, agents, selectedAgent, messages, isLoading,
                   statusSubscription, selReqs, chatReqs, updReqs, selLatest>>

\* The Stop Agent menu item (template lines 24-27), shown when the status is RUNNING.
ClickStop ==
    /\ phase = "live"
    /\ selectedAgent # NoAgent
    /\ selectedAgent.status = "RUNNING"
    /\ InFlight < MaxInFlight
    /\ issueCommand("stop")
    /\ UNCHANGED <<phase, agentsReq, agents, selectedAgent, messages, isLoading,
                   statusSubscription, selReqs, chatReqs, updReqs, selLatest>>

\* The next handler of startAgent / stopAgent, lines 143-146 and 157-160.
CommandNext(kind, agent) ==
    /\ cmdReqs[<<kind, agent.id>>] > 0
    /\ cmdReqs' = [cmdReqs EXCEPT ![<<kind, agent.id>>] = @ - 1]
    /\ selectedAgent' = CommandApplied(selectedAgent, agent)
    /\ UNCHANGED <<phase, agentsReq, agents, messages, isLoading, statusSubscription,
                   selReqs, chatReqs, updReqs, selLatest>>

\* The error handler of startAgent / stopAgent, lines 147-150 and 161-164.
CommandError(kind, id) ==
    /\ cmdReqs[<<kind, id>>] > 0
    /\ cmdReqs' = [cmdReqs EXCEPT ![<<kind, id>>] = @ - 1]
    /\ selectedAgent' = CommandFailed(selectedAgent)
    /\ UNCHANGED <<phase, agentsReq, agents, messages, isLoading, statusSubscription,
                   selReqs, chatReqs, updReqs, selLatest>>

\* ---------------------------------------------------------------- chat

\* sendMessage(), lines 168-195, with newMessage = text.
sendMessage(text) ==
    IF selectedAgent = NoAgent \/ Trim(text) = <<>>
    THEN UNCHANGED <<selectedAgent, messages, isLoading, chatReqs>>
    ELSE LET m == [role |-> "user", content |-> Trim(text)]
         IN  /\ messages' = Append(messages, m)
             /\ isLoading' = TRUE
             /\ selectedAgent' = PushHistory(selectedAgent, m)
             /\ chatReqs' = [chatReqs EXCEPT ![selectedAgent.id] = @ + 1]

\* Enter in the chat input or a click on Send (template lines 103-115); both
\* controls are disabled unless canSendMessage().
SubmitMessage(text) ==
    /\ phase = "live"
    /\ canSendMessage(selectedAgent)
    /\ InFlight < MaxInFlight
    /\ Len(messages) < MaxMsgs
    /\ sendMessage(text)
    /\ UNCHANGED <<phase, agentsReq, agents, statusSubscription,
                   selReqs, cmdReqs, updReqs, selLatest>>

\* sendMessage's next handler, lines 196-214.
ChatNext(id, content) ==
    /\ chatReqs[id] > 0
    /\ chatReqs' = [chatReqs EXCEPT ![id] = @ - 1]
    /\ messages' = ReplyMessages(messages, content)
    /\ selectedAgent' = PushReply(selectedAgent, [role |-> "assistant", content |-> content])
    /\ isLoading' = FALSE
    /\ UNCHANGED <<phase, agentsReq, agents, statusSubscription,
                   selReqs, cmdReqs, updReqs, selLatest>>

\* sendMessage's error handler, lines 215-219.
ChatError(id) ==
    /\ chatReqs[id] > 0
    /\ chatReqs' = [chatReqs EXCEPT ![id] = @ - 1]
    /\ messages' = ChatFailedMessages(messages)
    /\ isLoading' = FALSE
    /\ UNCHANGED <<phase, agentsReq, agents, selectedAgent, statusSubscription,
                   selReqs, cmdReqs, updReqs, selLatest>>

\* ---------------------------------------------------------------- edit

\* openEditDialog(), lines 229-251: the dialog is closed with a result and the
\* updateAgent request goes out for the agent selected at that moment.
SubmitEdit ==
    /\ phase = "live"
    /\ selectedAgent # NoAgent
    /\ InFlight < MaxInFlight
    /\ updReqs' = [updReqs EXCEPT ![selectedAgent.id] = @ + 1]
    /\ UNCHANGED <<phase, agentsReq, agents, selectedAgent, messages, isLoading,
                   statusSubscription, selReqs, cmdReqs, chatReqs, selLatest>>

\* updateAgent's next handler, lines 252-256.
UpdateNext(agent) ==
    /\ updReqs[agent.id] > 0
    /\ updReqs' = [updReqs EXCEPT ![agent.id] = @ - 1]
    /\ selectedAgent' = agent
    /\ UNCHANGED <<phase, agentsReq, agents, messages, isLoading, statusSubscription,
                   selReqs, cmdReqs, chatReqs, selLatest>>

\* updateAgent's error handler, lines 257-264.
UpdateError(id) ==
    /\ updReqs[id] > 0
    /\ updReqs' = [updReqs EXCEPT ![id] = @ - 1]
    /\ UNCHANGED <<phase, agentsReq, agents, selectedAgent, messages, isLoading,
                   statusSubscription, selReqs, cmdReqs, chatReqs, selLatest>>

\* ---------------------------------------------------------------- specification

AllSnapshots == UNION {Snapshots(id) : id \in Ids}

Next ==
    \/ \E route \in Ids \cup {"none"} : ngOnInit(route)
    \/ ngOnDestroy
    \/ LoadAgentsNext
    \/ LoadAgentsError
    \/ \E entry \in AllSnapshots : UserSelect(entry)
    \/ \E i \in 1..MaxInFlight : \E agent \in AllSnapshots : SelectNext(i, agent)
    \/ \E i \in 1..MaxInFlight : SelectError(i)
    \/ Tick
    \/ \E agent \in AllSnapshots : PollNext(agent)
    \/ PollError
    \/ ClickStart
    \/ ClickStop
    \/ \E kind \in Commands : \E agent \in AllSnapshots : CommandNext(kind, agent)
    \/ \E kind \in Commands : \E id \in Ids : CommandError(kind, id)
    \/ \E text \in Texts : SubmitMessage(text)
    \/ \E id \in Ids : \E content \in Replies : ChatNext(id, content)
    \/ \E id \in Ids : ChatError(id)
    \/ SubmitEdit
    \/ \E agent \in AllSnapshots : UpdateNext(agent)
    \/ \E id \in Ids : UpdateError(id)

Spec == Init /\ [][Next]_vars

\* ---------------------------------------------------------------- properties

\* Occurrences of message m in transcript s.
Count(m, s) == Cardinality({k \in 1..Len(s) : s[k] = m})

\* The selection permits conversation.
Conversable(sel) == sel # NoAgent /\ sel.status \in {"RUNNING", "COMPLETED"}

\* Lifecycle commands in flight for one agent.
CommandsFor(id) == cmdReqs[<<"start", id>>] + cmdReqs[<<"stop", id>>]

\* C1: once the response of the most recent selectAgent call has been applied,
\* the response of an earlier selectAgent call changes nothing of the session
\* state (selectedAgent, messages, the poller).
C1_LastSelectionWins ==
    [][(selLatest = "applied"
        /\ \E i \in 1..MaxInFlight : \E agent \in AllSnapshots : SelectNext(i, agent))
       => UNCHANGED <<selectedAgent, messages, statusSubscription>>]_vars

\* C2: a poll result for agent X that arrives when the selection is another
\* agent Y is not written into selectedAgent.
C2_PollSuppression ==
    [][\A agent \in AllSnapshots :
         (PollNext(agent) /\ selectedAgent # NoAgent
            /\ selectedAgent.id # statusSubscription.agentId)
         => selectedAgent' = selectedAgent]_vars

\* C3: a failed poll request leaves the poller's timer running.
C3_PollSurvivesError ==
    [][(PollError /\ statusSubscription.timer) => statusSubscription'.timer]_vars

\* C4: at most one lifecycle command (start or stop) is in flight for an agent.
C4_OneCommandInFlight == \A id \in Ids : CommandsFor(id) <= 1

C6_ChatExchange ==
    [][/\ (\E id \in Ids : chatReqs'[id] > chatReqs[id])
          => \E text \in Texts :
                /\ Trim(text) # <<>>
                /\ messages' = Append(messages, [role |-> "user", content |-> Trim(text)])
       /\ chatReqs' # chatReqs
          => \A id \in Ids : \A r \in Replies :
                ChatNext(id, r)
                => messages' = Append(messages, [role |-> "assistant", content |-> r])]_vars

\* No selectAgent response was ever applied and no request is in flight: the
\* transcript is exactly the exchange of one sendMessage and its reply.
C6_Witness ==
    /\ phase = "live"
    /\ statusSubscription = NoSub
    /\ messages = <<UserHi, AssistantHello>>
    /\ ~isLoading
    /\ InFlight = 0

\* C7: the error handler of sendMessage keeps the transcript as it is, the
\* optimistic user message included, appends no assistant message and clears
\* isLoading.
C7_FailedChatKeepsMessage ==
    [][chatReqs' # chatReqs
       => \A id \in Ids : ChatError(id) => (messages' = messages /\ isLoading' = FALSE)]_vars

\* No selectAgent response was ever applied: the user message was appended by
\* sendMessage, and its request has settled without an assistant message.
C7_Witness ==
    /\ phase = "live"
    /\ statusSubscription = NoSub
    /\ messages = <<UserHi>>
    /\ ~isLoading
    /\ ChatCount = 0

\* C8: the step that handles a successful start or stop response makes the
\* returned snapshot the selected agent.
C8_CommandResultApplied ==
    [][cmdReqs' # cmdReqs
       => \A kind \in Commands : \A agent \in AllSnapshots :
            CommandNext(kind, agent) => selectedAgent' = agent]_vars

\* A start command is in flight for the selected idle agent while its poller
\* has no request in flight.
C8_Witness ==
    /\ selectedAgent # NoAgent
    /\ selectedAgent.status = "IDLE"
    /\ cmdReqs[<<"start", selectedAgent.id>>] = 1
    /\ statusSubscription.agentId = selectedAgent.id
    /\ statusSubscription.inflight = 0

\* C9: the step that handles a failed start or stop request changes neither
\* selectedAgent, nor the transcript, nor the poller.
C9_CommandFailureKeepsState ==
    [][cmdReqs' # cmdReqs
       => \A kind \in Commands : \A id \in Ids :
            CommandError(kind, id)
            => UNCHANGED <<selectedAgent, messages, statusSubscription>>]_vars

\* A stop command is in flight for the selected agent, whose snapshot a poll
\* has meanwhile turned to IDLE.
C9_Witness ==
    /\ selectedAgent # NoAgent
    /\ selectedAgent.status = "IDLE"
    /\ cmdReqs[<<"stop", selectedAgent.id>>] = 1
    /\ statusSubscription.agentId = selectedAgent.id
    /\ statusSubscription.timer

\* C10: when a snapshot whose chat_history holds one copy of a user message is
\* applied over a transcript that holds one (optimistic) copy of it, the
\* transcript holds exactly one copy afterwards.
C10_NoDuplicateOnReconcile ==
    [][(Len(selReqs') < Len(selReqs) \/ statusSubscription'.inflight # statusSubscription.inflight)
       => \A k \in 1..Len(messages) :
            (messages[k].role = "user" /\ Count(messages[k], messages) = 1)
            => \A agent \in {e \in AllSnapshots : e.hasHist /\ Count(messages[k], e.hist) = 1} :
                 ((\E i \in 1..Len(selReqs) : SelectNext(i, agent)) \/ PollNext(agent))
                 => Count(messages[k], messages') = 1]_vars

\* The chat request of agent a1 is still in flight, the selection has moved to
\* a2, whose snapshot carries the same user message, and the transcript shows
\* one copy.
C10_Witness ==
    /\ chatReqs["a1"] = 1
    /\ selectedAgent.id = "a2"
    /\ selectedAgent.hasHist
    /\ selectedAgent.hist = <<UserHi>>
    /\ statusSubscription.agentId = "a2"
    /\ messages = <<UserHi>>
    /\ selReqs = <<>>

\* C11: calling ngOnDestroy / stopStatusPolling a second time right after the
\* first leaves the poller field as the first call left it and unsubscribes
\* nothing: over both calls unsubscribe() runs at most once.
C11_DisposeIdempotent ==
    LET once == stopStatusPolling(statusSubscription)
    IN  /\ stopStatusPolling(once) = once
        /\ Unsubscribes(statusSubscription) + Unsubscribes(once) <= 1

\* The component is destroyed while its poller runs with a request in flight:
\* the first ngOnDestroy has something to cancel.
C11_Witness ==
    /\ phase = "live"
    /\ statusSubscription.timer
    /\ statusSubscription.inflight > 0
    /\ ENABLED ngOnDestroy

\* C12: after ngOnDestroy (no selectAgent call can be issued any more) no
\* poller is active, also when a selectAgent call issued before it resolves
\* afterwards.
C12_NoPollerAfterDispose ==
    phase = "destroyed" => statusSubscription = NoSub

C14_FailedSelectKeepsPrevious ==
    [][(Len(selReqs) = 1 /\ SelectError(1) /\ phase = "live" /\ statusSubscription.timer)
       => /\ UNCHANGED <<selectedAgent, messages, statusSubscription>>
          /\ selectedAgent'.id = statusSubscription'.agentId]_vars

\* C15: the step that applies a selectAgent response makes the fetched
\* snapshot the selection, resets the transcript to the snapshot's
\* chat_history (empty without one) and replaces any previous poller, its
\* request in flight included, by a fresh poller for the fetched id, which is
\* then the selected id.
C15_SelectApplied ==
    [][Len(selReqs') < Len(selReqs)
       => \A i \in 1..Len(selReqs) : \A agent \in AllSnapshots :
            SelectNext(i, agent)
            => /\ selectedAgent' = agent
               /\ messages' = (IF agent.hasHist THEN agent.hist ELSE <<>>)
               /\ statusSubscription' = [agentId |-> agent.id, timer |-> TRUE, inflight |-> 0]
               /\ statusSubscription'.agentId = selectedAgent'.id]_vars

\* The response for a2 carrying a transcript has been applied: a2 is selected
\* and polled by a fresh poller with no request in flight, and the transcript
\* is the snapshot's.
C15_Witness ==
    /\ phase = "live"
    /\ selectedAgent = [id |-> "a2", status |-> "IDLE", hasHist |-> TRUE, hist |-> <<UserHi>>]
    /\ messages = <<UserHi>>
    /\ statusSubscription = [agentId |-> "a2", timer |-> TRUE, inflight |-> 0]
    /\ InFlight = 0
    /\ ~isLoading

\* C16: the reply to a chat request sent while agent A was selected, arriving
\* when another agent B is selected, is appended neither to the transcript nor
\* to B's chat_history.
C16_StaleReplyDiscarded ==
    [][chatReqs' # chatReqs
       => \A id \in Ids : \A r \in Replies :
            (ChatNext(id, r) /\ selectedAgent # NoAgent /\ selectedAgent.id # id)
            => (messages' = messages /\ selectedAgent' = selectedAgent)]_vars

\* C17: the response to a start, stop or update request issued while agent A
\* was selected, arriving when another agent B is selected, does not replace
\* selectedAgent.
C17_StaleCommandDiscarded ==
    [][(cmdReqs' # cmdReqs \/ updReqs' # updReqs)
       => \A agent \in AllSnapshots :
            (/\ selectedAgent # NoAgent
             /\ selectedAgent.id # agent.id
             /\ UpdateNext(agent) \/ \E kind \in Commands : CommandNext(kind, agent))
            => selectedAgent' = selectedAgent]_vars

\* C18: a poller awaits at most one getAgent request: the request of a tick
\* replaces the one still awaited, whose result is then never applied, so
\* results are applied in the order of their requests.
C18_OnePollAwaited == statusSubscription.inflight <= 1

\* The poller of the selected agent awaits a request while its timer runs:
\* the next tick finds the request of the tick before unanswered.
C18_Witness ==
    /\ phase = "live"
    /\ statusSubscription.timer
    /\ statusSubscription.inflight = 1
    /\ selectedAgent.id = statusSubscription.agentId
    /\ ENABLED Tick

\* C19: when a selectAgent response is applied over a transcript that so far
\* holds only locally appended messages (no response was applied before), every
\* user message of it that the fetched chat_history lacks is still displayed.
C19_OptimisticSurvives ==
    [][(Len(selReqs') < Len(selReqs) /\ phase = "live" /\ statusSubscription = NoSub)
       => \A i \in 1..Len(selReqs) : \A agent \in AllSnapshots :
            SelectNext(i, agent)
            => \A k \in 1..Len(messages) :
                 (messages[k].role = "user" /\ Count(messages[k], SelectMessages(agent)) = 0)
                 => Count(messages[k], messages') > 0]_vars

\* C20: every assistant message of the displayed transcript (each is the reply
\* to a sendMessage call) has a user message somewhere before it.
C20_ReplyAfterUserMessage ==
    \A k \in 1..Len(messages) :
        messages[k].role = "assistant"
        => \E j \in 1..(k - 1) : messages[j].role = "user"

\* C21 as stated: applying a fetched snapshot that carries no chat_history,
\* from selectAgent or from a poll, leaves the transcript unchanged.
C21_NoHistoryKeepsTranscript ==
    [][(Len(selReqs') < Len(selReqs) \/ statusSubscription'.inflight < statusSubscription.inflight)
       => \A agent \in {e \in AllSnapshots : ~e.hasHist} :
            ((\E i \in 1..Len(selReqs) : SelectNext(i, agent)) \/ PollNext(agent))
            => messages' = messages]_vars

\* C21 as amended: a poll result without chat_history leaves the transcript
\* unchanged; a selectAgent response without chat_history empties it.
C21_NoHistoryPollKeepsSelectClears ==
    [][(Len(selReqs') < Len(selReqs) \/ statusSubscription'.inflight < statusSubscription.inflight)
       => \A agent \in {e \in AllSnapshots : ~e.hasHist} :
            /\ PollNext(agent) => messages' = messages
            /\ (\E i \in 1..Len(selReqs) : SelectNext(i, agent)) => messages' = <<>>]_vars

\* A chat request is in flight, so its user message was in the transcript, and
\* the transcript is empty under a selected snapshot without chat_history: a
\* selectAgent response without chat_history has emptied it.
C21_Witness ==
    /\ phase = "live"
    /\ ChatCount > 0
    /\ messages = <<>>
    /\ selectedAgent # NoAgent
    /\ ~selectedAgent.hasHist
    /\ statusSubscription.agentId = selectedAgent.id

\* C22: with a chat request and a poll request of the selected agent both in
\* flight, handling the poll result and then the reply leaves the same
\* transcript as handling the reply and then the poll result.
C22_ReplyAndPollCommute ==
    (/\ selectedAgent # NoAgent
     /\ selectedAgent.id = statusSubscription.agentId
     /\ statusSubscription.inflight > 0
     /\ chatReqs[selectedAgent.id] > 0)
    => \A agent \in Snapshots(selectedAgent.id) : \A r \in Replies :
         ReplyMessages(PollMessages(messages, agent), r)
           = PollMessages(ReplyMessages(messages, r), agent)

\* Agent a1 is selected and polled, its user message "hi" is displayed, and
\* both the chat request and a poll request for a1 await their answers.
C22_Witness ==
    /\ phase = "live"
    /\ selectedAgent # NoAgent
    /\ selectedAgent.id = "a1"
    /\ statusSubscription.agentId = "a1"
    /\ statusSubscription.inflight = 1
    /\ chatReqs["a1"] = 1
    /\ isLoading
    /\ messages = <<UserHi>>

\* C23: while a start or stop request for the selected agent is in flight, a
\* tick of its running poller still issues a poll request, and the result of
\* an awaited poll request is still applied to selectedAgent.
C23_CommandsDoNotBlockPolling ==
    (/\ selectedAgent # NoAgent
     /\ selectedAgent.id = statusSubscription.agentId
     /\ CommandsFor(selectedAgent.id) > 0)
    => /\ statusSubscription.timer
          => ENABLED (Tick /\ statusSubscription'.inflight = 1)
       /\ statusSubscription.inflight > 0
          => \A agent \in Snapshots(selectedAgent.id) :
                ENABLED (PollNext(agent) /\ selectedAgent' = agent)

\* A stop request for the selected, polled agent a2 is in flight while the
\* poller's timer runs and a poll request is awaited.
C23_Witness ==
    /\ phase = "live"
    /\ selectedAgent # NoAgent
    /\ selectedAgent.id = "a2"
    /\ statusSubscription = [agentId |-> "a2", timer |-> TRUE, inflight |-> 1]
    /\ cmdReqs[<<"stop", "a2">>] = 1

\* C24 as stated: the step that starts a poller issues its first getAgent
\* request.
C24_FirstPollAtStart ==
    [][Len(selReqs') < Len(selReqs)
       => \A i \in 1..Len(selReqs) : \A agent \in AllSnapshots :
            SelectNext(i, agent) => statusSubscription'.inflight = 1]_vars

\* C24 as amended: a started poller awaits no request until the first emission
\* of interval(5000), one period after the start; poll requests are issued by
\* the timer's emissions only.
C24_FirstPollAfterOnePeriod ==
    [][/\ statusSubscription'.inflight > statusSubscription.inflight => Tick
       /\ Len(selReqs') < Len(selReqs)
          => \A i \in 1..Len(selReqs) : \A agent \in AllSnapshots :
                SelectNext(i, agent) => statusSubscription'.inflight = 0]_vars

\* The list is still loading and the selectAgent response for the route's
\* agent a1 has started the poller: its timer runs and no request is awaited.
C24_Witness ==
    /\ phase = "live"
    /\ agentsReq
    /\ selReqs = <<>>
    /\ selectedAgent # NoAgent
    /\ selectedAgent.id = "a1"
    /\ statusSubscription = [agentId |-> "a1", timer |-> TRUE, inflight |-> 0]

\* C25: selectedAgent, chat_history included, changes only by becoming the
\* whole snapshot delivered to the step (a list entry picked in the mat-select,
\* or a selectAgent, poll, command or edit response); no step modifies the
\* held snapshot in place.
C25_SnapshotImmutable ==
    [][selectedAgent' # selectedAgent
       => \E agent \in AllSnapshots :
            /\ selectedAgent' = agent
            /\ \/ UserSelect(agent)
               \/ \E i \in 1..Len(selReqs) : SelectNext(i, agent)
               \/ PollNext(agent)
               \/ UpdateNext(agent)
               \/ \E kind \in Commands : CommandNext(kind, agent)]_vars

\* C26: whenever the status of selectedAgent changes, the step is the
\* mat-select's pick of a list entry or the handling of a selectAgent, poll,
\* command or edit response, and selectedAgent becomes the whole snapshot that
\* step carries.
C26_StatusOnlyFromSnapshots ==
    [][selectedAgent'.status # selectedAgent.status
       => \E agent \in AllSnapshots :
            /\ selectedAgent' = agent
            /\ \/ UserSelect(agent)
               \/ \E i \in 1..Len(selReqs) : SelectNext(i, agent)
               \/ PollNext(agent)
               \/ UpdateNext(agent)
               \/ \E kind \in Commands : CommandNext(kind, agent)]_vars

\* The selected, polled agent a1 shows RUNNING, the status its snapshot
\* carries, with nothing in flight.
C26_Witness ==
    /\ phase = "live"
    /\ selectedAgent = [id |-> "a1", status |-> "RUNNING", hasHist |-> FALSE, hist |-> <<>>]
    /\ statusSubscription.agentId = "a1"
    /\ statusSubscription.inflight = 0
    /\ InFlight = 0
    /\ agents = {}

\* C27: the component holds one polling subscription, and what
\* startStatusPolling replaces has been cancelled first, timer and awaited
\* request: the started poller is the only live one and awaits nothing of the
\* poller before it.
C27_OnePoller ==
    LET stopped == stopStatusPolling(statusSubscription)
    IN  /\ ~stopped.timer
        /\ stopped.inflight = 0
        /\ \A id \in Ids :
             LET started == startStatusPolling(statusSubscription, id)
             IN  started.agentId = id /\ started.timer /\ started.inflight = 0

\* A selectAgent response is pending while the current poller's timer runs and
\* a poll request is awaited: startStatusPolling will replace a live poller.
C27_Witness ==
    /\ phase = "live"
    /\ Len(selReqs) = 1
    /\ statusSubscription.timer
    /\ statusSubscription.inflight = 1

\* C28: when an agent is shown on a live component and no response is
\* pending, the poller of the shown agent is running (its timer emits and the
\* next emission issues a request for selectedAgent.id).
C28_PollingContinues ==
    (/\ phase = "live"
     /\ selectedAgent # NoAgent
     /\ InFlight = 0
     /\ statusSubscription.inflight = 0)
    => (statusSubscription.timer /\ statusSubscription.agentId = selectedAgent.id)

\* C29: isLoading is true exactly when a sendMessage request is in flight.
C29_BusyTracksChats == isLoading <=> ChatCount > 0

\* C30: handling a poll result or a successful start, stop or update response
\* leaves the transcript and isLoading as they are; the transcript changes
\* only in the steps of selectAgent's response and of sendMessage.
C30_TranscriptFrame ==
    [][/\ (cmdReqs' # cmdReqs \/ updReqs' # updReqs \/ statusSubscription' # statusSubscription)
          => \A agent \in AllSnapshots :
                (PollNext(agent) \/ UpdateNext(agent)
                   \/ \E kind \in Commands : CommandNext(kind, agent))
                => UNCHANGED <<messages, isLoading>>
       /\ messages' # messages
          => (Len(selReqs') < Len(selReqs) \/ chatReqs' # chatReqs)]_vars

\* The user message is displayed and its request is in flight, while the
\* selected, polled agent's status has since been replaced by IDLE.
C30_Witness ==
    /\ phase = "live"
    /\ messages = <<UserHi>>
    /\ isLoading
    /\ ChatCount = 1
    /\ selReqs = <<>>
    /\ selectedAgent # NoAgent
    /\ selectedAgent.status = "IDLE"
    /\ statusSubscription.agentId = selectedAgent.id

====
